---- MODULE Spec2Model ----
(***************************************************************************)
(* simplepwa/pckg: the Next.js PWA setup CLI (src/bin/index.js).           *)
(* The file holds two variants of the tool: the one with built-in asset    *)
(* generation (lines 1-802) and the one without (lines 804-1437).          *)
(* The model covers one invocation of either variant: the interactive      *)
(* prompts, generateAssets, the manifest, the config patcher and the       *)
(* setup report, over a small file system.                                 *)
(***************************************************************************)
EXTENDS Integers, Sequences, FiniteSets, TLC

VARIABLES
    variant,        \* which of the two programs of index.js runs
    pc,             \* position of main()
    exitCode,       \* process exit code, NoExit while running
    structure,      \* structureResponse.structure
    assetsChoice,   \* assetsResponse.assetsLocation
    customPath,     \* customPath.path
    assetsPath,     \* let assetsPath
    generateNow,    \* generateNowResponse.generateNow
    logo,           \* the source image behind logoResponse.path
    iconIdx,        \* position of the for...of loop of generateAssets
    success,        \* let success
    manifestInfo,   \* the answers of getManifestInfo
    packageManager, \* result of detectPackageManager
    dirs,           \* directories created by the run
    files,          \* image files written by the run: path -> image
    manifest,       \* content of public/manifest.json
    configFiles,    \* next.config.{ts,mjs,js}: content or Absent
    setupMd,        \* content of PWA_SETUP.md
    failure,        \* the error raised in the run, "none" if none
    events,         \* what the run did, in order
    lockFilesFound, \* the lock files detectPackageManager saw
    patchRuns       \* number of runs of the config patcher (SpecPatch)

vars == <<variant, pc, exitCode, structure, assetsChoice, customPath,
          assetsPath, generateNow, logo, iconIdx, success, manifestInfo,
          packageManager, dirs, files, manifest, configFiles, setupMd,
          failure, events, lockFilesFound, patchRuns>>

----------------------------------------------------------------------------
(* Bounds of the model *)

\* source image widths tried: 511 and the multiples 512*1 .. 512*MaxScale
MaxScale == 2

\* the config patcher is re-run up to this many times in SpecPatch
MaxPatchRuns == 2

\* the number of times the manifest is built from the same answers
MaxBuilds == 2

----------------------------------------------------------------------------
(* The Size Catalog: const iconSizes *)

iconSizes ==
    << [name |-> "favicon-16x16.ico", size |-> [number |-> 16]],
       [name |-> "favicon-32x32.ico", size |-> [number |-> 32]],
       [name |-> "favicon-32x32.png", size |-> [number |-> 32]],
       [name |-> "favicon-16x16.png", size |-> [number |-> 16]],
       [name |-> "icon-48x48.png", size |-> [number |-> 48]],
       [name |-> "icon-72x72.png", size |-> [number |-> 72]],
       [name |-> "icon-96x96.png", size |-> [number |-> 96]],
       [name |-> "icon-128x128.png", size |-> [number |-> 128]],
       [name |-> "icon-144x144.png", size |-> [number |-> 144]],
       [name |-> "icon-152x152.png", size |-> [number |-> 152]],
       [name |-> "icon-192x192.png", size |-> [number |-> 192]],
       [name |-> "icon-384x384.png", size |-> [number |-> 384]],
       [name |-> "icon-512x512.png", size |-> [number |-> 512]],
       [name |-> "apple-touch-icon-57x57.png", size |-> [number |-> 57]],
       [name |-> "apple-touch-icon-60x60.png", size |-> [number |-> 60]],
       [name |-> "apple-touch-icon-72x72.png", size |-> [number |-> 72]],
       [name |-> "apple-touch-icon-76x76.png", size |-> [number |-> 76]],
       [name |-> "apple-touch-icon-114x114.png", size |-> [number |-> 114]],
       [name |-> "apple-touch-icon-120x120.png", size |-> [number |-> 120]],
       [name |-> "apple-touch-icon-144x144.png", size |-> [number |-> 144]],
       [name |-> "apple-touch-icon-152x152.png", size |-> [number |-> 152]],
       [name |-> "apple-touch-icon-180x180.png", size |-> [number |-> 180]],
       [name |-> "maskable_icon-192x192.png", size |-> [number |-> 192]],
       [name |-> "maskable_icon-512x512.png", size |-> [number |-> 512]],
       [name |-> "og-image.png",
       size |-> [width |-> 1200, height |-> 630]],
       [name |-> "twitter-card.png",
       size |-> [width |-> 1024, height |-> 512]],
       [name |-> "iPhone-X-XR-11-Pro-1125x2436.png",
       size |-> [width |-> 1125, height |-> 2436]],
       [name |-> "iPhone-XR-11-828x1792.png",
       size |-> [width |-> 828, height |-> 1792]],
       [name |-> "iPhone-XS-Max-11-Pro-Max-1242x2688.png",
       size |-> [width |-> 1242, height |-> 2688]],
       [name |-> "iPhone-6-6S-7-8-SE-750x1334.png",
       size |-> [width |-> 750, height |-> 1334]],
       [name |-> "iPad-Mini-Air-Pro-9.7-inch-1536x2048.png",
       size |-> [width |-> 1536, height |-> 2048]],
       [name |-> "iPad-Pro-11-inch-1668x2388.png",
       size |-> [width |-> 1668, height |-> 2388]],
       [name |-> "iPad-Pro-12.9-inch-2048x2732.png",
       size |-> [width |-> 2048, height |-> 2732]] >>


----------------------------------------------------------------------------
(* The icons of manifestContent, as written in main(): for each entry the  *)
(* file name that follows the directory in `src`, and the literal sizes,   *)
(* type and purpose.                                                       *)

FaviconEntries ==
    << [file |-> "favicon-16x16.ico", sizes |-> "16x16",
        type |-> "image/png", purpose |-> "any"],
       [file |-> "favicon-32x32.ico", sizes |-> "32x32",
        type |-> "image/png", purpose |-> "any"],
       [file |-> "favicon-32x32.png", sizes |-> "32x32",
        type |-> "image/png", purpose |-> "any"],
       [file |-> "favicon-16x16.png", sizes |-> "16x16",
        type |-> "image/png", purpose |-> "any"] >>

StandardIconEntries ==
    << [file |-> "icon-48x48.png", sizes |-> "48x48",
        type |-> "image/png", purpose |-> "any"],
       [file |-> "icon-72x72.png", sizes |-> "72x72",
        type |-> "image/png", purpose |-> "any"],
       [file |-> "icon-96x96.png", sizes |-> "96x96",
        type |-> "image/png", purpose |-> "any"],
       [file |-> "icon-128x128.png", sizes |-> "128x128",
        type |-> "image/png", purpose |-> "any"],
       [file |-> "icon-144x144.png", sizes |-> "144x144",
        type |-> "image/png", purpose |-> "any"],
       [file |-> "icon-152x152.png", sizes |-> "152x152",
        type |-> "image/png", purpose |-> "any"],
       [file |-> "icon-192x192.png", sizes |-> "192x192",
        type |-> "image/png", purpose |-> "any"],
       [file |-> "icon-384x384.png", sizes |-> "384x384",
        type |-> "image/png", purpose |-> "any"],
       [file |-> "icon-512x512.png", sizes |-> "512x512",
        type |-> "image/png", purpose |-> "any"] >>

AppleTouchEntries ==
    << [file |-> "apple-touch-icon-57x57.png", sizes |-> "57x57",
        type |-> "image/png", purpose |-> "any"],
       [file |-> "apple-touch-icon-60x60.png", sizes |-> "60x60",
        type |-> "image/png", purpose |-> "any"],
       [file |-> "apple-touch-icon-72x72.png", sizes |-> "72x72",
        type |-> "image/png", purpose |-> "any"],
       [file |-> "apple-touch-icon-76x76.png", sizes |-> "76x76",
        type |-> "image/png", purpose |-> "any"],
       [file |-> "apple-touch-icon-114x114.png", sizes |-> "114x114",
        type |-> "image/png", purpose |-> "any"],
       [file |-> "apple-touch-icon-120x120.png", sizes |-> "120x120",
        type |-> "image/png", purpose |-> "any"],
       [file |-> "apple-touch-icon-144x144.png", sizes |-> "144x144",
        type |-> "image/png", purpose |-> "any"],
       [file |-> "apple-touch-icon-152x152.png", sizes |-> "152x152",
        type |-> "image/png", purpose |-> "any"],
       [file |-> "apple-touch-icon-180x180.png", sizes |-> "180x180",
        type |-> "image/png", purpose |-> "any"] >>

\* the maskable entries tagged like every other entry
MaskableEntriesTaggedAny ==
    << [file |-> "maskable_icon-192x192.png", sizes |-> "192x192",
        type |-> "image/png", purpose |-> "any"],
       [file |-> "maskable_icon-512x512.png", sizes |-> "512x512",
        type |-> "image/png", purpose |-> "any"] >>

MaskableEntries ==
    << [file |-> "maskable_icon-192x192.png", sizes |-> "192x192",
        type |-> "image/png", purpose |-> "any maskable"],
       [file |-> "maskable_icon-512x512.png", sizes |-> "512x512",
        type |-> "image/png", purpose |-> "any maskable"] >>

SocialEntries ==
    << [file |-> "og-image.png", sizes |-> "1200x630",
        type |-> "image/png", purpose |-> "any"],
       [file |-> "twitter-card.png", sizes |-> "1200x600",
        type |-> "image/png", purpose |-> "any"] >>

SplashEntries ==
    << [file |-> "iPhone-X-XR-11-Pro-1125x2436.png", sizes |-> "1125x2436",
        type |-> "image/png", purpose |-> "any"],
       [file |-> "iPhone-XR-11-828x1792.png", sizes |-> "828x1792",
        type |-> "image/png", purpose |-> "any"],
       [file |-> "iPhone-XS-Max-11-Pro-Max-1242x2688.png", sizes |-> "1242x2688",
        type |-> "image/png", purpose |-> "any"],
       [file |-> "iPhone-6-6S-7-8-SE-750x1334.png", sizes |-> "750x1334",
        type |-> "image/png", purpose |-> "any"],
       [file |-> "iPad-Mini-Air-Pro-9.7-inch-1536x2048.png", sizes |-> "1536x2048",
        type |-> "image/png", purpose |-> "any"],
       [file |-> "iPad-Pro-11-inch-1668x2388.png", sizes |-> "1668x2388",
        type |-> "image/png", purpose |-> "any"],
       [file |-> "iPad-Pro-12.9-inch-2048x2732.png", sizes |-> "2048x2732",
        type |-> "image/png", purpose |-> "any"] >>

\* a manifest that leaves the device splash screens out
ManifestEntriesWithoutSplash ==
    FaviconEntries \o StandardIconEntries \o AppleTouchEntries
        \o MaskableEntries \o SocialEntries

\* the icons array of manifestContent, in order
ManifestEntries ==
    FaviconEntries \o StandardIconEntries \o AppleTouchEntries
        \o MaskableEntries \o SocialEntries \o SplashEntries

----------------------------------------------------------------------------
(* Strings and paths (Node's path module, POSIX flavour) *)

Digits == <<"0", "1", "2", "3", "4", "5", "6", "7", "8", "9">>

\* template-literal formatting of a non-negative integer
RECURSIVE NumToString(_)
NumToString(n) ==
    IF n < 10 THEN Digits[n + 1]
    ELSE NumToString(n \div 10) \o Digits[(n % 10) + 1]

StartsWith(s, prefix) ==
    /\ Len(s) >= Len(prefix)
    /\ SubSeq(s, 1, Len(prefix)) = prefix

\* s.split("/"): `start` is where the current segment begins
RECURSIVE SplitAcc(_, _, _, _)
SplitAcc(s, i, start, acc) ==
    IF i > Len(s) THEN Append(acc, SubSeq(s, start, Len(s)))
    ELSE IF SubSeq(s, i, i) = "/"
         THEN SplitAcc(s, i + 1, i + 1, Append(acc, SubSeq(s, start, i - 1)))
         ELSE SplitAcc(s, i + 1, start, acc)

Split(s) == SplitAcc(s, 1, 1, << >>)

\* segs.join("/")
RECURSIVE JoinSegs(_)
JoinSegs(segs) ==
    IF Len(segs) = 0 THEN ""
    ELSE IF Len(segs) = 1 THEN segs[1]
    ELSE segs[1] \o "/" \o JoinSegs(Tail(segs))

\* Resolution of a relative path against the working directory: empty and
\* "." segments vanish, ".." removes the segment before it; `up` counts the
\* ".." that climb above the working directory.
RECURSIVE ResolveAcc(_, _, _, _)
ResolveAcc(segs, i, stack, up) ==
    IF i > Len(segs) THEN [up |-> up, segs |-> stack]
    ELSE IF segs[i] = "" \/ segs[i] = "."
         THEN ResolveAcc(segs, i + 1, stack, up)
    ELSE IF segs[i] = ".."
         THEN IF Len(stack) > 0
              THEN ResolveAcc(segs, i + 1, SubSeq(stack, 1, Len(stack) - 1), up)
              ELSE ResolveAcc(segs, i + 1, stack, up + 1)
    ELSE ResolveAcc(segs, i + 1, Append(stack, segs[i]), up)

Resolve(p) == ResolveAcc(Split(p), 1, << >>, 0)

RECURSIVE DotDots(_)
DotDots(n) == IF n = 0 THEN << >> ELSE <<"..">> \o DotDots(n - 1)

\* path.normalize of a relative path
PathNormalize(p) ==
    LET r == Resolve(p) IN JoinSegs(DotDots(r.up) \o r.segs)

\* path.join(a, b)
PathJoin(a, b) == PathNormalize(a \o "/" \o b)

\* the position of the last "/" of s at or before i, 0 if there is none
RECURSIVE LastSlash(_, _)
LastSlash(s, i) ==
    IF i = 0 THEN 0
    ELSE IF SubSeq(s, i, i) = "/" THEN i
    ELSE LastSlash(s, i - 1)

\* path.basename(p), for a path that does not end in "/"
PathBasename(p) == SubSeq(p, LastSlash(p, Len(p)) + 1, Len(p))

RECURSIVE CommonPrefixLen(_, _)
CommonPrefixLen(a, b) ==
    IF Len(a) = 0 \/ Len(b) = 0 \/ a[1] # b[1] THEN 0
    ELSE 1 + CommonPrefixLen(Tail(a), Tail(b))

\* path.relative(from, to) for two relative paths, `from` inside the working
\* directory: the segments of the working directory itself are not known to
\* the model, so a `to` that climbs above it is reached by ".." only.
PathRelative(from, to) ==
    LET f == Resolve(from)
        t == Resolve(to)
        k == IF t.up = 0 THEN CommonPrefixLen(f.segs, t.segs) ELSE 0
    IN  JoinSegs(DotDots(Len(f.segs) - k + t.up)
                    \o SubSeq(t.segs, k + 1, Len(t.segs)))

----------------------------------------------------------------------------
(* Values of the program and of its environment *)

\* if (metadata.width < 512 || metadata.height < 512)
MinSourceSize == 512

NoExit == 0 - 1
Absent == "<absent>"
Cancel == "<cancel>"
Unanswered == "<unanswered>"

Variants == {"generate", "plain"}

\* package.json: missing, without next, or with next in one of the two lists
PackageJsonStates == {"missing", "other", "dependencies", "devDependencies"}

StructureChoices == {"standard", "src"}
AssetsChoices == {"public/assets", "public/images", "custom"}
PackageManagers == {"npm", "yarn", "pnpm"}
LockFileNames == {"yarn.lock", "pnpm-lock.yaml", "package-lock.json"}
ConfigFileNames == {"next.config.ts", "next.config.mjs", "next.config.js"}

\* answers to "Enter the custom assets path (relative to public directory)"
CustomPaths == {"pwa-assets", "img/icons/", "public", "../static"}

SourceWidths ==
    {MinSourceSize - 1} \cup {MinSourceSize * k : k \in 1..MaxScale}

SourceHeights == {MinSourceSize - 1, MinSourceSize}

NoLogo == [kind |-> "none", width |-> 0, height |-> 0]
UnreadableLogo == [kind |-> "unreadable", width |-> 0, height |-> 0]

\* the files a logo path can name: no image at all, or an image of some size
Logos ==
    {UnreadableLogo}
        \cup {[kind |-> "image", width |-> w, height |-> h] :
                 w \in SourceWidths, h \in SourceHeights}

NoAnswers ==
    [name |-> "", shortName |-> "", description |-> "",
     themeColor |-> "", backgroundColor |-> ""]

RequiredFields ==
    <<"name", "shortName", "description", "themeColor", "backgroundColor">>

CompleteAnswers ==
    { [name |-> "Acme", shortName |-> "Acme", description |-> "d",
       themeColor |-> "#112233", backgroundColor |-> "#ffffff"],
      [name |-> "My Next.js App", shortName |-> "Next App",
       description |-> "A Next.js PWA Application",
       themeColor |-> "#000000", backgroundColor |-> "#ffffff"] }

\* a response in which one of the fields is missing
IncompleteAnswers ==
    { [a EXCEPT ![RequiredFields[i]] = ""] :
        a \in CompleteAnswers, i \in 1..Len(RequiredFields) }

\* const pwaConfigContent
PwaConfigContent == "const withPWA = require('next-pwa')({...})"

ConfigContents == {Absent, "custom"}

NoManifest == << >>
NoReport == << >>

Log(kind, what) == Append(events, [kind |-> kind, what |-> what])
Log2(k1, w1, k2, w2) ==
    events \o <<[kind |-> k1, what |-> w1], [kind |-> k2, what |-> w2]>>

----------------------------------------------------------------------------
(* generateAssets *)

\* typeof icon.size === "number"
IsNumber(size) == DOMAIN size = {"number"}

\* the box an entry is resized to: resize(icon.size, icon.size, ...) for a
\* square entry, resize(icon.size.width, icon.size.height, ...) otherwise
ResizeBox(icon) ==
    IF IsNumber(icon.size)
    THEN [width |-> icon.size.number, height |-> icon.size.number]
    ELSE [width |-> icon.size.width, height |-> icon.size.height]

\* a / b rounded to the nearest integer, at least 1
RoundDiv(a, b) ==
    LET q == (2 * a + b) \div (2 * b) IN IF q < 1 THEN 1 ELSE q

\* fit: "inside" in place of "contain": the scaled image is written without
\* padding, so the output takes the source's aspect ratio
ResizeInside(source, box) ==
    LET wide == source.width * box.height >= source.height * box.width
        w == IF wide THEN box.width
             ELSE RoundDiv(source.width * box.height, source.height)
        h == IF wide THEN RoundDiv(source.height * box.width, source.width)
             ELSE box.height
    IN  [width |-> w, height |-> h, fit |-> "inside", alpha |-> 0,
         contentWidth |-> w, contentHeight |-> h]

\* sharp's resize(width, height, {fit: "contain", background}): the source is
\* scaled uniformly to fit inside the box and the rest of the box is filled
\* with the background; the output has the size of the box.
Resize(source, box) ==
    LET wide == source.width * box.height >= source.height * box.width
    IN  [width |-> box.width,
         height |-> box.height,
         fit |-> "contain",
         alpha |-> 0,
         contentWidth |->
             IF wide THEN box.width
             ELSE RoundDiv(source.width * box.height, source.height),
         contentHeight |->
             IF wide THEN RoundDiv(source.height * box.width, source.width)
             ELSE box.height]

\* the gate with && in place of ||
SourceTooSmallBoth(metadata) ==
    metadata.width < MinSourceSize /\ metadata.height < MinSourceSize

\* if (metadata.width < 512 || metadata.height < 512) throw
SourceTooSmall(metadata) ==
    metadata.width < MinSourceSize \/ metadata.height < MinSourceSize

\* the output written under the public root instead of outputPath
OutputFileInPublic(outputPath, icon) == PathJoin("public", icon.name)

\* const outputFile = path.join(outputPath, icon.name)
OutputFile(outputPath, icon) == PathJoin(outputPath, icon.name)

----------------------------------------------------------------------------
(* manifestContent *)

\* the src built from the file-system path of the assets directory
IconSrcWithPublic(relative, file) == "/public/" \o relative \o "/" \o file

\* src: `/${path.relative("public", assetsPath)}/<file>`, given the result
\* of path.relative
IconSrc(relative, file) == "/" \o relative \o "/" \o file

ManifestIcon(relative, entry) ==
    [src |-> IconSrc(relative, entry.file), sizes |-> entry.sizes,
     type |-> entry.type, purpose |-> entry.purpose]

\* the icon list written only when the assets were generated in this run
BuildManifestOfGenerated(info, path) ==
    LET relative == PathRelative("public", path) IN
    [name |-> info.name,
     short_name |-> info.shortName,
     description |-> info.description,
     theme_color |-> info.themeColor,
     background_color |-> info.backgroundColor,
     display |-> "standalone",
     orientation |-> "portrait",
     scope |-> "/",
     start_url |-> "/?source=pwa",
     icons |-> IF success
               THEN [i \in 1..Len(ManifestEntries) |->
                        ManifestIcon(relative, ManifestEntries[i])]
               ELSE << >>]

\* name and short_name taken from each other's answer
BuildManifestNamesSwapped(info, path) ==
    LET relative == PathRelative("public", path) IN
    [name |-> info.shortName,
     short_name |-> info.name,
     description |-> info.description,
     theme_color |-> info.themeColor,
     background_color |-> info.backgroundColor,
     display |-> "standalone",
     orientation |-> "portrait",
     scope |-> "/",
     start_url |-> "/?source=pwa",
     icons |-> [i \in 1..Len(ManifestEntries) |->
                   ManifestIcon(relative, ManifestEntries[i])]]

BuildManifest(info, path) ==
    LET relative == PathRelative("public", path) IN
    [name |-> info.name,
     short_name |-> info.shortName,
     description |-> info.description,
     theme_color |-> info.themeColor,
     background_color |-> info.backgroundColor,
     display |-> "standalone",
     orientation |-> "portrait",
     scope |-> "/",
     start_url |-> "/?source=pwa",
     icons |-> [i \in 1..Len(ManifestEntries) |->
                   ManifestIcon(relative, ManifestEntries[i])]]

\* the order in which JSON.stringify writes the top-level fields
ManifestFieldOrder ==
    <<"name", "short_name", "description", "theme_color", "background_color",
      "display", "orientation", "scope", "start_url", "icons">>

----------------------------------------------------------------------------
(* The config patcher *)

\* the precedence with the module variant first
UpdatedConfigFileMjsFirst(cfg) ==
    IF cfg["next.config.mjs"] # Absent THEN "next.config.mjs"
    ELSE IF cfg["next.config.ts"] # Absent THEN "next.config.ts"
    ELSE "next.config.js"

\* let updatedConfigFile: next.config.ts if it exists, else next.config.mjs
\* if it exists, else next.config.js
UpdatedConfigFile(cfg) ==
    IF cfg["next.config.ts"] # Absent THEN "next.config.ts"
    ELSE IF cfg["next.config.mjs"] # Absent THEN "next.config.mjs"
    ELSE "next.config.js"

\* fs.appendFileSync in place of fs.writeFileSync: an existing file keeps
\* its content and the block is added to it
AppendFileSync(cfg, file, content) ==
    [cfg EXCEPT ![file] = IF cfg[file] = Absent THEN content
                          ELSE cfg[file] \o content]

\* fs.writeFileSync(file, content): creates or replaces the file
WriteFileSync(cfg, file, content) == [cfg EXCEPT ![file] = content]

PatchConfig(cfg) == WriteFileSync(cfg, UpdatedConfigFile(cfg), PwaConfigContent)

----------------------------------------------------------------------------
(* The setup report *)

\* readmeContent of the variant with generation: section 1 is a fixed text;
\* assetInstructions is computed from the generation choice but not used.
ReadmeContent(path, cfgFile, pm, struct, info) ==
    [assets |-> "All required PWA assets have been generated and placed in the "
                    \o path \o " directory",
     configFile |-> cfgFile,
     run |-> IF pm = "npm" THEN "npm run" ELSE pm,
     metadataPath |-> IF struct = "src" THEN "src/app/layout.tsx"
                      ELSE "app/layout.tsx",
     themeColor |-> info.themeColor,
     title |-> info.shortName,
     appleIcon |-> IconSrc(PathRelative("public", path),
                           "apple-touch-icon-180x180.png")]

\* readmeContent of the variant without generation
PlainReadmeContent(path, cfgFile, pm, struct, info) ==
    [assets |-> "After generating the assets, place them in your "
                    \o path \o " directory",
     configFile |-> cfgFile,
     run |-> IF pm = "npm" THEN "npm run" ELSE pm,
     metadataPath |-> IF struct = "src" THEN "src/app/layout.tsx"
                      ELSE "app/layout.tsx",
     themeColor |-> info.themeColor,
     title |-> info.shortName,
     appleIcon |-> IconSrc(PathRelative("public", path),
                           "apple-touch-icon-180x180.png")]

\* const installCommand = {npm: ..., yarn: ..., pnpm: ...}[packageManager]
InstallCommand(pm) ==
    (CASE pm = "npm" -> "npm install"
       [] pm = "yarn" -> "yarn add"
       [] pm = "pnpm" -> "pnpm add") \o " next-pwa"

\* the lock files looked up with pnpm-lock.yaml first
PackageManagerOfPnpmFirst(locks) ==
    IF "pnpm-lock.yaml" \in locks THEN "pnpm"
    ELSE IF "yarn.lock" \in locks THEN "yarn"
    ELSE "npm"

\* return response?.packageManager || "npm"
PackageManagerOrDefault(choice) == IF choice = Absent THEN "npm" ELSE choice

\* detectPackageManager, when a lock file exists
PackageManagerOf(locks) ==
    IF "yarn.lock" \in locks THEN "yarn"
    ELSE IF "pnpm-lock.yaml" \in locks THEN "pnpm"
    ELSE "npm"

----------------------------------------------------------------------------
(* State *)

answerVars ==
    <<structure, assetsChoice, customPath, assetsPath, generateNow, logo,
      manifestInfo, packageManager, lockFilesFound>>

diskVars == <<dirs, files, manifest, configFiles, setupMd>>

Idle ==
    /\ exitCode = NoExit
    /\ structure = Unanswered
    /\ assetsChoice = Unanswered
    /\ customPath = Unanswered
    /\ assetsPath = Unanswered
    /\ generateNow = Unanswered
    /\ logo = NoLogo
    /\ iconIdx = 0
    /\ success = FALSE
    /\ manifestInfo = NoAnswers
    /\ packageManager = Unanswered
    /\ lockFilesFound = {}
    /\ dirs = {}
    /\ files = << >>
    /\ manifest = NoManifest
    /\ setupMd = NoReport
    /\ failure = "none"
    /\ events = << >>
    /\ patchRuns = 0

Init ==
    /\ variant \in Variants
    /\ pc = "start"
    /\ configFiles \in [ConfigFileNames -> ConfigContents]
    /\ Idle

\* process.exit(code), or the end of main()
Exit(code) ==
    /\ pc' = "exited"
    /\ exitCode' = code

\* the catch printing the error and leaving with code 0
ThrowExitsZero(msg) ==
    /\ failure' = msg
    /\ events' = Log("error", msg)
    /\ Exit(0)

\* throw new Error(msg) inside main's try: the catch prints it and exits 1
Throw(msg) ==
    /\ failure' = msg
    /\ events' = Log("error", msg)
    /\ Exit(1)

\* a prompt cancelled where the code exits 0 on abort
Aborted(prompt) ==
    /\ events' = Log2("prompt", prompt, "cancel", prompt)
    /\ Exit(0)
    /\ UNCHANGED <<variant, answerVars, diskVars, iconIdx, success, failure,
                   patchRuns>>

\* fs.mkdirSync(path, {recursive: true})
MkdirSync(path) == dirs' = dirs \cup {PathNormalize(path)}

----------------------------------------------------------------------------
(* main: the checks and the prompts before generation *)

\* fs.existsSync("package.json")
PackageJsonExists(pkg) == pkg # "missing"

\* packageJson.dependencies?.next || packageJson.devDependencies?.next
HasNext(pkg) == pkg \in {"dependencies", "devDependencies"}

\* package.json is missing, or lists next in neither dependency list
CheckProjectFails ==
    /\ pc = "start"
    /\ \E pkg \in PackageJsonStates :
          \/ /\ ~PackageJsonExists(pkg)
             /\ Throw("package.json not found")
          \/ /\ PackageJsonExists(pkg)
             /\ ~HasNext(pkg)
             /\ Throw("This doesn't appear to be a Next.js project")
    /\ UNCHANGED <<variant, answerVars, diskVars, iconIdx, success, patchRuns>>

CheckProjectPasses ==
    /\ pc = "start"
    /\ \E pkg \in PackageJsonStates :
          PackageJsonExists(pkg) /\ HasNext(pkg)
    /\ pc' = "structure"
    /\ UNCHANGED <<variant, exitCode, answerVars, diskVars, iconIdx, success,
                   failure, events, patchRuns>>

AskStructure ==
    /\ pc = "structure"
    /\ \E s \in StructureChoices : structure' = s
    /\ events' = Log("prompt", "structure")
    /\ pc' = "assetsLocation"
    /\ UNCHANGED <<variant, exitCode, assetsChoice, customPath, assetsPath,
                   generateNow, logo, manifestInfo, packageManager,
                   lockFilesFound, diskVars, iconIdx, success, failure,
                   patchRuns>>

CancelStructure ==
    /\ pc = "structure"
    /\ Aborted("structure")

AskAssetsLocation ==
    /\ pc = "assetsLocation"
    /\ \E a \in AssetsChoices :
          /\ assetsChoice' = a
          /\ assetsPath' = a
          /\ pc' = IF a = "custom" THEN "customPath" ELSE "assetsChosen"
    /\ events' = Log("prompt", "assetsLocation")
    /\ UNCHANGED <<variant, exitCode, structure, customPath, generateNow,
                   logo, manifestInfo, packageManager, lockFilesFound,
                   diskVars, iconIdx, success, failure, patchRuns>>

CancelAssetsLocation ==
    /\ pc = "assetsLocation"
    /\ Aborted("assetsLocation")

\* the custom answer taken as the assets path as it is
AskCustomPathUnprefixed ==
    /\ pc = "customPath"
    /\ \E c \in CustomPaths :
          /\ customPath' = c
          /\ assetsPath' = c
    /\ events' = Log("prompt", "customPath")
    /\ pc' = "assetsChosen"
    /\ UNCHANGED <<variant, exitCode, structure, assetsChoice, generateNow,
                   logo, manifestInfo, packageManager, lockFilesFound,
                   diskVars, iconIdx, success, failure, patchRuns>>

AskCustomPath ==
    /\ pc = "customPath"
    /\ \E c \in CustomPaths :
          /\ customPath' = c
          /\ assetsPath' = "public/" \o c
    /\ events' = Log("prompt", "customPath")
    /\ pc' = "assetsChosen"
    /\ UNCHANGED <<variant, exitCode, structure, assetsChoice, generateNow,
                   logo, manifestInfo, packageManager, lockFilesFound,
                   diskVars, iconIdx, success, failure, patchRuns>>

CancelCustomPath ==
    /\ pc = "customPath"
    /\ Aborted("customPath")

\* the variant without generation leaving the directory to the operator
EnsureAssetsDirectorySkipped ==
    /\ pc = "assetsChosen"
    /\ variant = "plain"
    /\ pc' = "branding"
    /\ UNCHANGED <<variant, exitCode, answerVars, diskVars, iconIdx, success,
                   failure, events, patchRuns>>

\* the variant without generation: if (!fs.existsSync(assetsPath)) mkdirSync
EnsureAssetsDirectory ==
    /\ pc = "assetsChosen"
    /\ variant = "plain"
    /\ MkdirSync(assetsPath)
    /\ events' = Log("mkdir", PathNormalize(assetsPath))
    /\ pc' = "branding"
    /\ UNCHANGED <<variant, exitCode, answerVars, files, manifest,
                   configFiles, setupMd, iconIdx, success, failure, patchRuns>>

AnswerGenerateYes ==
    /\ pc = "assetsChosen"
    /\ variant = "generate"
    /\ generateNow' = "yes"
    /\ events' = Log("prompt", "generateNow")
    /\ pc' = "logo"
    /\ UNCHANGED <<variant, exitCode, structure, assetsChoice, customPath,
                   assetsPath, logo, manifestInfo, packageManager,
                   lockFilesFound, diskVars, iconIdx, success, failure,
                   patchRuns>>

\* the else branch of generateNow === "yes": the directory is created
AnswerGenerateNo ==
    /\ pc = "assetsChosen"
    /\ variant = "generate"
    /\ generateNow' = "no"
    /\ MkdirSync(assetsPath)
    /\ events' = Log2("prompt", "generateNow",
                      "mkdir", PathNormalize(assetsPath))
    /\ pc' = "branding"
    /\ UNCHANGED <<variant, exitCode, structure, assetsChoice, customPath,
                   assetsPath, logo, manifestInfo, packageManager,
                   lockFilesFound, files, manifest, configFiles, setupMd,
                   iconIdx, success, failure, patchRuns>>

\* the generateNow prompt has no onState and no onCancel: a cancelled prompt
\* resolves to {}, generateNow is undefined and the else branch runs
CancelGenerateNow ==
    /\ pc = "assetsChosen"
    /\ variant = "generate"
    /\ generateNow' = Cancel
    /\ MkdirSync(assetsPath)
    /\ events' = Log2("prompt", "generateNow", "cancel", "generateNow")
                     \o <<[kind |-> "mkdir", what |-> PathNormalize(assetsPath)]>>
    /\ pc' = "branding"
    /\ UNCHANGED <<variant, exitCode, structure, assetsChoice, customPath,
                   assetsPath, logo, manifestInfo, packageManager,
                   lockFilesFound, files, manifest, configFiles, setupMd,
                   iconIdx, success, failure, patchRuns>>

AskLogo ==
    /\ pc = "logo"
    /\ \E l \in Logos : logo' = l
    /\ events' = Log("prompt", "logo")
    /\ pc' = "generateAssets"
    /\ UNCHANGED <<variant, exitCode, structure, assetsChoice, customPath,
                   assetsPath, generateNow, manifestInfo, packageManager,
                   lockFilesFound, diskVars, iconIdx, success, failure,
                   patchRuns>>

\* the logo prompt has no onState and no onCancel either: logoResponse.path
\* is undefined and main throws "Logo path is required for asset generation"
CancelLogo ==
    /\ pc = "logo"
    /\ failure' = "Logo path is required for asset generation"
    /\ events' = Log2("prompt", "logo", "cancel", "logo")
                     \o <<[kind |-> "error",
                           what |-> "Logo path is required for asset generation"]>>
    /\ Exit(1)
    /\ UNCHANGED <<variant, answerVars, diskVars, iconIdx, success, patchRuns>>

----------------------------------------------------------------------------
(* generateAssets(logoResponse.path, assetsPath), and main's use of it *)

\* main going on after generateAssets returned false
GenerateAssetsFailsIgnored(msg) ==
    /\ success' = FALSE
    /\ failure' = msg
    /\ pc' = "branding"
    /\ exitCode' = exitCode

\* generateAssets' catch prints the error and returns false; main then
\* throws "Failed to generate assets", which main's catch prints before exit
GenerateAssetsFails(msg) ==
    /\ success' = FALSE
    /\ failure' = msg
    /\ Exit(1)

\* sharp(logoPath).metadata() rejects: the file is no image
SourceUnreadable ==
    /\ pc = "generateAssets"
    /\ logo.kind = "unreadable"
    /\ MkdirSync(assetsPath)
    /\ GenerateAssetsFails("Input file is not a readable image")
    /\ events' = events \o
          <<[kind |-> "mkdir", what |-> PathNormalize(assetsPath)],
            [kind |-> "error", what |-> "Error generating assets"],
            [kind |-> "error", what |-> "Failed to generate assets"]>>
    /\ UNCHANGED <<variant, answerVars, files, manifest, configFiles, setupMd,
                   iconIdx, patchRuns>>

SourceRejected ==
    /\ pc = "generateAssets"
    /\ logo.kind = "image"
    /\ SourceTooSmall(logo)
    /\ MkdirSync(assetsPath)
    /\ GenerateAssetsFails("Source image should be at least 512x512 pixels")
    /\ events' = events \o
          <<[kind |-> "mkdir", what |-> PathNormalize(assetsPath)],
            [kind |-> "error", what |-> "Error generating assets"],
            [kind |-> "error", what |-> "Failed to generate assets"]>>
    /\ UNCHANGED <<variant, answerVars, files, manifest, configFiles, setupMd,
                   iconIdx, patchRuns>>

SourceAccepted ==
    /\ pc = "generateAssets"
    /\ logo.kind = "image"
    /\ ~SourceTooSmall(logo)
    /\ MkdirSync(assetsPath)
    /\ events' = Log("mkdir", PathNormalize(assetsPath))
    /\ iconIdx' = 1
    /\ pc' = "generating"
    /\ UNCHANGED <<variant, exitCode, answerVars, files, manifest, configFiles,
                   setupMd, success, failure, patchRuns>>

\* the loop walking the catalog from its last entry to its first
GenerateIconReversed ==
    /\ pc = "generating"
    /\ LET icon == iconSizes[Len(iconSizes) + 1 - iconIdx]
           outputFile == OutputFile(assetsPath, icon)
       IN  /\ files' = (outputFile :> Resize(logo, ResizeBox(icon))) @@ files
           /\ events' = Log("write", outputFile)
    /\ IF iconIdx < Len(iconSizes)
       THEN /\ iconIdx' = iconIdx + 1
            /\ UNCHANGED <<pc, success>>
       ELSE /\ iconIdx' = 0
            /\ success' = TRUE
            /\ pc' = "branding"
    /\ UNCHANGED <<variant, exitCode, answerVars, dirs, manifest, configFiles,
                   setupMd, failure, patchRuns>>

\* one turn of for (const icon of iconSizes): resize and toFile succeed;
\* after the last entry generateAssets returns true
GenerateIcon ==
    /\ pc = "generating"
    /\ LET icon == iconSizes[iconIdx]
           outputFile == OutputFile(assetsPath, icon)
       IN  /\ files' = (outputFile :> Resize(logo, ResizeBox(icon))) @@ files
           /\ events' = Log("write", outputFile)
    /\ IF iconIdx < Len(iconSizes)
       THEN /\ iconIdx' = iconIdx + 1
            /\ UNCHANGED <<pc, success>>
       ELSE /\ iconIdx' = 0
            /\ success' = TRUE
            /\ pc' = "branding"
    /\ UNCHANGED <<variant, exitCode, answerVars, dirs, manifest, configFiles,
                   setupMd, failure, patchRuns>>

\* a catch that removes the files written so far before returning false
GenerateIconFailsRollsBack ==
    /\ pc = "generating"
    /\ GenerateAssetsFails("toFile failed")
    /\ files' = << >>
    /\ events' = Log2("error", "Error generating assets",
                      "error", "Failed to generate assets")
    /\ UNCHANGED <<variant, answerVars, dirs, manifest, configFiles, setupMd,
                   iconIdx, patchRuns>>

\* resize(...).toFile(outputFile) rejects for the current entry
GenerateIconFails ==
    /\ pc = "generating"
    /\ GenerateAssetsFails("toFile failed")
    /\ events' = Log2("error", "Error generating assets",
                      "error", "Failed to generate assets")
    /\ UNCHANGED <<variant, answerVars, diskVars, iconIdx, patchRuns>>

----------------------------------------------------------------------------
(* getManifestInfo, detectPackageManager and the install *)

AnswerBranding ==
    /\ pc = "branding"
    /\ \E a \in CompleteAnswers : manifestInfo' = a
    /\ events' = Log("prompt", "branding")
    /\ pc' = "detectPackageManager"
    /\ UNCHANGED <<variant, exitCode, structure, assetsChoice, customPath,
                   assetsPath, generateNow, logo, packageManager,
                   lockFilesFound, diskVars, iconIdx, success, failure,
                   patchRuns>>

\* the required-fields check left out: the incomplete response is returned
BrandingIncompleteAccepted ==
    /\ pc = "branding"
    /\ \E a \in IncompleteAnswers : manifestInfo' = a
    /\ failure' = "Missing required fields"
    /\ events' = Log("prompt", "branding")
    /\ pc' = "detectPackageManager"
    /\ UNCHANGED <<variant, exitCode, structure, assetsChoice, customPath,
                   assetsPath, generateNow, logo, packageManager,
                   lockFilesFound, diskVars, iconIdx, success, patchRuns>>

\* missingFields.length > 0: getManifestInfo's catch prints and exits 1
BrandingIncomplete ==
    /\ pc = "branding"
    /\ \E a \in IncompleteAnswers : manifestInfo' = a
    /\ failure' = "Missing required fields"
    /\ events' = Log2("prompt", "branding",
                      "error", "Error getting manifest information")
    /\ Exit(1)
    /\ UNCHANGED <<variant, structure, assetsChoice, customPath, assetsPath,
                   generateNow, logo, packageManager, lockFilesFound,
                   diskVars, iconIdx, success, patchRuns>>

\* onCancel: "Setup cancelled.", process.exit(0)
CancelBranding ==
    /\ pc = "branding"
    /\ Aborted("branding")

DetectFromLockFile ==
    /\ pc = "detectPackageManager"
    /\ \E locks \in SUBSET LockFileNames :
          /\ locks # {}
          /\ lockFilesFound' = locks
          /\ packageManager' = PackageManagerOf(locks)
    /\ pc' = "install"
    /\ UNCHANGED <<variant, exitCode, structure, assetsChoice, customPath,
                   assetsPath, generateNow, logo, manifestInfo, diskVars,
                   iconIdx, success, failure, events, patchRuns>>

\* no lock file: the operator is asked; the response holds one of the
\* three choices, or none
AskPackageManager ==
    /\ pc = "detectPackageManager"
    /\ \E choice \in PackageManagers \cup {Absent} :
          packageManager' = PackageManagerOrDefault(choice)
    /\ lockFilesFound' = {}
    /\ events' = Log("prompt", "packageManager")
    /\ pc' = "install"
    /\ UNCHANGED <<variant, exitCode, structure, assetsChoice, customPath,
                   assetsPath, generateNow, logo, manifestInfo, diskVars,
                   iconIdx, success, failure, patchRuns>>

CancelPackageManager ==
    /\ pc = "detectPackageManager"
    /\ Aborted("packageManager")

\* the run going on to the manifest without running the command
InstallSkipped ==
    /\ pc = "install"
    /\ pc' = "manifest"
    /\ UNCHANGED <<variant, exitCode, answerVars, diskVars, iconIdx, success,
                   failure, events, patchRuns>>

\* execSync(`${installCommand} next-pwa`) returns
Install ==
    /\ pc = "install"
    /\ events' = Log("install", InstallCommand(packageManager))
    /\ pc' = "manifest"
    /\ UNCHANGED <<variant, exitCode, answerVars, diskVars, iconIdx, success,
                   failure, patchRuns>>

\* the failed command caught and the run going on to the manifest
InstallFailsIgnored ==
    /\ pc = "install"
    /\ failure' = "Command failed"
    /\ events' = Log2("install", InstallCommand(packageManager),
                      "error", "Command failed")
    /\ pc' = "manifest"
    /\ UNCHANGED <<variant, exitCode, answerVars, diskVars, iconIdx, success,
                   patchRuns>>

\* execSync throws: the command exited non-zero
InstallFails ==
    /\ pc = "install"
    /\ failure' = "Command failed"
    /\ events' = Log2("install", InstallCommand(packageManager),
                      "error", "Command failed")
    /\ Exit(1)
    /\ UNCHANGED <<variant, answerVars, diskVars, iconIdx, success, patchRuns>>

----------------------------------------------------------------------------
(* The three documents *)

\* fs.writeFileSync("public/manifest.json", JSON.stringify(manifestContent))
WriteManifest ==
    /\ pc = "manifest"
    /\ manifest' = <<BuildManifest(manifestInfo, assetsPath)>>
    /\ events' = Log("write", "public/manifest.json")
    /\ pc' = "config"
    /\ UNCHANGED <<variant, exitCode, answerVars, dirs, files, configFiles,
                   setupMd, iconIdx, success, failure, patchRuns>>

WriteConfig ==
    /\ pc = "config"
    /\ configFiles' = PatchConfig(configFiles)
    /\ events' = Log("write", UpdatedConfigFile(configFiles))
    /\ pc' = "report"
    /\ UNCHANGED <<variant, exitCode, answerVars, dirs, files, manifest,
                   setupMd, iconIdx, success, failure, patchRuns>>

\* fs.writeFileSync("PWA_SETUP.md", readmeContent); main returns and the
\* process ends with code 0
WriteReport ==
    /\ pc = "report"
    /\ LET cfgFile == (CHOOSE i \in DOMAIN events :
                          /\ events[i].kind = "write"
                          /\ events[i].what \in ConfigFileNames)
       IN  setupMd' =
             <<IF variant = "generate"
               THEN ReadmeContent(assetsPath, events[cfgFile].what,
                                  packageManager, structure, manifestInfo)
               ELSE PlainReadmeContent(assetsPath, events[cfgFile].what,
                                       packageManager, structure, manifestInfo)>>
    /\ events' = Log("write", "PWA_SETUP.md")
    /\ pc' = "done"
    /\ exitCode' = 0
    /\ UNCHANGED <<variant, answerVars, dirs, files, manifest, configFiles,
                   iconIdx, success, failure, patchRuns>>

----------------------------------------------------------------------------
(* One invocation of the tool *)

Next ==
    \/ CheckProjectFails
    \/ CheckProjectPasses
    \/ AskStructure
    \/ CancelStructure
    \/ AskAssetsLocation
    \/ CancelAssetsLocation
    \/ AskCustomPath
    \/ CancelCustomPath
    \/ EnsureAssetsDirectory
    \/ AnswerGenerateYes
    \/ AnswerGenerateNo
    \/ CancelGenerateNow
    \/ AskLogo
    \/ CancelLogo
    \/ SourceUnreadable
    \/ SourceRejected
    \/ SourceAccepted
    \/ GenerateIcon
    \/ GenerateIconFails
    \/ AnswerBranding
    \/ BrandingIncomplete
    \/ CancelBranding
    \/ DetectFromLockFile
    \/ AskPackageManager
    \/ CancelPackageManager
    \/ Install
    \/ InstallFails
    \/ WriteManifest
    \/ WriteConfig
    \/ WriteReport

Spec == Init /\ [][Next]_vars

----------------------------------------------------------------------------
(* The config patcher run again and again over every state of the three    *)
(* config files                                                            *)

PatchContents == {Absent, "custom", "other", PwaConfigContent}

InitPatch ==
    /\ variant \in Variants
    /\ pc = "config"
    /\ configFiles \in [ConfigFileNames -> PatchContents]
    /\ Idle

\* lines 647-662 (1294-1309 in the variant without generation)
RunConfigPatcher ==
    /\ patchRuns < MaxPatchRuns
    /\ configFiles' = PatchConfig(configFiles)
    /\ patchRuns' = patchRuns + 1
    /\ UNCHANGED <<variant, pc, exitCode, answerVars, dirs, files, manifest,
                   setupMd, iconIdx, success, failure, events>>

NextPatch == RunConfigPatcher

SpecPatch == InitPatch /\ [][NextPatch]_vars

----------------------------------------------------------------------------
(* The manifest synthesizer run again and again from the same answers,     *)
(* while the generated files and the config files come and go              *)

\* the values assetsPath takes: the two presets, or public/<custom path>
AssetsPaths ==
    {"public/assets", "public/images"} \cup {"public/" \o c : c \in CustomPaths}

InitSynth ==
    /\ variant \in Variants
    /\ pc = "manifest"
    /\ exitCode = NoExit
    /\ structure = Unanswered
    /\ assetsChoice = Unanswered
    /\ customPath = Unanswered
    /\ assetsPath \in AssetsPaths
    /\ generateNow = Unanswered
    /\ logo = NoLogo
    /\ iconIdx = 0
    /\ success \in BOOLEAN
    /\ manifestInfo \in CompleteAnswers
    /\ packageManager = Unanswered
    /\ lockFilesFound = {}
    /\ dirs = {}
    /\ files = << >>
    /\ manifest = NoManifest
    /\ configFiles \in [ConfigFileNames -> ConfigContents]
    /\ setupMd = NoReport
    /\ failure = "none"
    /\ events = << >>
    /\ patchRuns = 0

\* const manifestContent = {...}, built once more from manifestInfo and
\* assetsPath and kept after the documents built before
SynthesizeManifest ==
    /\ Len(manifest) < MaxBuilds
    /\ manifest' = Append(manifest, BuildManifest(manifestInfo, assetsPath))
    /\ UNCHANGED <<variant, pc, exitCode, answerVars, dirs, files, configFiles,
                   setupMd, iconIdx, success, failure, events, patchRuns>>

\* between two builds the assets are generated or removed and a config file
\* is written
DiskChanges ==
    /\ success' = ~success
    /\ dirs' = {PathNormalize(assetsPath)}
    /\ files' =
          IF success THEN << >>
          ELSE OutputFile(assetsPath, iconSizes[1]) :>
                   Resize([kind |-> "image", width |-> MinSourceSize,
                           height |-> MinSourceSize],
                          ResizeBox(iconSizes[1]))
    /\ configFiles' = PatchConfig(configFiles)
    /\ UNCHANGED <<variant, pc, exitCode, answerVars, manifest, setupMd,
                   iconIdx, failure, events, patchRuns>>

NextSynth ==
    \/ SynthesizeManifest
    \/ DiskChanges

SpecSynth == InitSynth /\ [][NextSynth]_vars

----------------------------------------------------------------------------
(* Properties *)

ManifestWritten == manifest # NoManifest
Icons == manifest[1].icons

\* the manifest's icons by file name: <<file name of src, sizes, purpose>>
IconsByFile ==
    {<<PathBasename(Icons[i].src), Icons[i].sizes, Icons[i].purpose>> :
        i \in DOMAIN Icons}

IsSplash(name) == StartsWith(name, "iPhone-") \/ StartsWith(name, "iPad-")
IsMaskable(name) == StartsWith(name, "maskable_icon-")

CatalogNames == {iconSizes[j].name : j \in DOMAIN iconSizes}
SplashNames == {n \in CatalogNames : IsSplash(n)}
MaskableNames == {n \in CatalogNames : IsMaskable(n)}

\* the catalog entry of a file name
CatalogEntry(name) ==
    iconSizes[CHOOSE j \in DOMAIN iconSizes : iconSizes[j].name = name]

\* the dimension of a catalog entry as "{width}x{height}"
CatalogSizeString(icon) ==
    IF IsNumber(icon.size)
    THEN NumToString(icon.size.number) \o "x" \o NumToString(icon.size.number)
    ELSE NumToString(icon.size.width) \o "x" \o NumToString(icon.size.height)

Cancelled == \E i \in DOMAIN events : events[i].kind = "cancel"

\* generateAssets was called and has returned
GenerateAssetsReturned ==
    /\ logo # NoLogo
    /\ pc \notin {"generateAssets", "generating"}

\* C1: every manifest icon entry's sizes string is the dimension of the
\* catalog entry with the same file name, formatted "{width}x{height}".
\* The code violates it for twitter-card.png (1024x512 in the catalog,
\* "1200x600" in the manifest).
C1_SizesEqualCatalog ==
    ManifestWritten =>
        \A e \in IconsByFile :
            /\ e[1] \in CatalogNames
            /\ e[2] = CatalogSizeString(CatalogEntry(e[1]))

\* C2: a source image narrower or lower than 512 makes generateAssets fail
\* with no image file written and at most the output directory created; a
\* readable source of at least 512x512 whose writes all succeed makes it
\* return true.
C2_MinimumResolutionGate ==
    /\ (/\ GenerateAssetsReturned
        /\ logo.kind = "image"
        /\ (logo.width < 512 \/ logo.height < 512))
       => /\ success = FALSE
          /\ pc = "exited"
          /\ exitCode = 1
          /\ DOMAIN files = {}
          /\ dirs \subseteq {PathNormalize(assetsPath)}
    /\ (/\ GenerateAssetsReturned
        /\ logo.kind = "image"
        /\ logo.width >= 512
        /\ logo.height >= 512
        /\ failure # "toFile failed")
       => success = TRUE
    /\ (logo.kind = "image" /\ (logo.width < 512 \/ logo.height < 512))
       => DOMAIN files = {}

C2_Witness ==
    /\ GenerateAssetsReturned
    /\ logo = [kind |-> "image", width |-> 1024, height |-> 511]
    /\ failure = "Source image should be at least 512x512 pixels"
    /\ dirs # {}

\* C3 as stated: no device splash-screen file (iPhone-*, iPad-*) is an icon
\* of the manifest.  The code lists all seven.
C3_NoSplashInManifest ==
    ManifestWritten =>
        \A e \in IconsByFile : ~IsSplash(e[1])

\* C3, amended: each of the 4 phone and 3 tablet splash-screen catalog
\* entries is an icon of the manifest, with purpose "any", and after a
\* successful generation its file exists.
C3_SplashInManifest ==
    /\ Cardinality(SplashNames) = 7
    /\ ManifestWritten =>
          LET byFile == IconsByFile
              dir == PathNormalize(assetsPath)
          IN  \A n \in SplashNames :
                  /\ \E e \in byFile : e[1] = n /\ e[3] = "any"
                  /\ success => (dir \o "/" \o n) \in DOMAIN files

C3_Witness ==
    /\ ManifestWritten
    /\ success
    /\ \E i \in DOMAIN Icons :
          Icons[i].src = "/assets/iPad-Pro-12.9-inch-2048x2732.png"

\* C4: after a successful generation every manifest icon names a file that
\* generateAssets wrote into the assets directory: the directory joined with
\* the file name of src, which is also the public root joined with src.
C4_ReferentialIntegrity ==
    (ManifestWritten /\ success) =>
        LET byFile == IconsByFile
            dir == PathNormalize(assetsPath)
            srcDirs == {SubSeq(Icons[i].src, 1,
                               LastSlash(Icons[i].src, Len(Icons[i].src))) :
                            i \in DOMAIN Icons}
        IN  /\ \A e \in byFile : (dir \o "/" \o e[1]) \in DOMAIN files
            /\ \A d \in srcDirs : PathJoin("public", d) = dir

C4_Witness ==
    /\ ManifestWritten
    /\ success
    /\ assetsPath = "public/img/icons/"
    /\ "public/img/icons/icon-512x512.png" \in DOMAIN files

\* the assets location relative to the public root, by the way it was chosen
LocationUnderPublic ==
    CASE assetsChoice = "public/assets" -> "assets"
      [] assetsChoice = "public/images" -> "images"
      [] assetsChoice = "custom" -> PathNormalize(customPath)

SrcAsSpecified ==
    LET prefix == "/" \o LocationUnderPublic \o "/" IN
    /\ Len(Icons) = Len(iconSizes)
    /\ \A i \in DOMAIN Icons : Icons[i].src = prefix \o iconSizes[i].name
    /\ assetsPath = "public/assets" =>
          \E i \in DOMAIN Icons :
              Icons[i] = [src |-> "/assets/icon-512x512.png",
                          sizes |-> "512x512", type |-> "image/png",
                          purpose |-> "any"]

C6_MaskablePurpose ==
    /\ Cardinality(MaskableNames) = 2
    /\ ManifestWritten =>
          LET byFile == IconsByFile IN
          /\ \A e \in byFile :
                IF IsMaskable(e[1]) THEN e[3] = "any maskable"
                ELSE e[3] = "any"
          /\ \A n \in MaskableNames :
                \E e \in byFile : e[1] = n /\ e[3] = "any maskable"

C6_Witness ==
    /\ ManifestWritten
    /\ \E i \in DOMAIN Icons :
          /\ Icons[i].purpose = "any maskable"
          /\ Icons[i].src = "/images/maskable_icon-512x512.png"

\* the config file the precedence next.config.ts, next.config.mjs,
\* next.config.js selects in a state of the three files
ByPrecedence(cfg) ==
    CASE cfg["next.config.ts"] # Absent -> "next.config.ts"
      [] cfg["next.config.ts"] = Absent /\ cfg["next.config.mjs"] # Absent
            -> "next.config.mjs"
      [] cfg["next.config.ts"] = Absent /\ cfg["next.config.mjs"] = Absent
            -> "next.config.js"

\* C7: the config step writes exactly one config file, the one the
\* precedence ts, mjs, js selects, and leaves the other two as they were; no
\* other step of the run touches a config file.
C7_OneConfigByPrecedence ==
    [][ /\ pc = "config" =>
            LET chosen == ByPrecedence(configFiles) IN
            /\ configFiles'[chosen] = PwaConfigContent
            /\ \A f \in ConfigFileNames \ {chosen} :
                  configFiles'[f] = configFiles[f]
            /\ events' = Append(events, [kind |-> "write", what |-> chosen])
        /\ pc # "config" => configFiles' = configFiles ]_vars

\* an existing next.config.ts was overwritten and next.config.js is still
\* absent
C7_Witness ==
    /\ pc = "report"
    /\ configFiles["next.config.ts"] = PwaConfigContent
    /\ configFiles["next.config.mjs"] = "custom"
    /\ configFiles["next.config.js"] = Absent

\* C8: from any state of the three config files, a run of the patcher
\* leaves the fixed PWA block in the file it selects, whatever that file held,
\* and a second run changes nothing.
C8_PatcherIdempotent ==
    [][ patchRuns' = patchRuns + 1 =>
            /\ configFiles'[ByPrecedence(configFiles)] = PwaConfigContent
            /\ patchRuns >= 1 => configFiles' = configFiles ]_vars

\* the patcher ran twice over a custom next.config.ts
C8_Witness ==
    /\ patchRuns = 2
    /\ configFiles["next.config.ts"] = PwaConfigContent
    /\ configFiles["next.config.mjs"] = "custom"
    /\ configFiles["next.config.js"] = "other"

\* C9: when generateAssets has returned true, the files written are exactly
\* one per catalog entry, named by it in the output directory, each resized
\* to the entry's box (size x size, or width x height) with fit contain and
\* a transparent background, whatever the source's aspect ratio.
C9_OneFilePerCatalogEntry ==
    success =>
        LET dir == PathNormalize(assetsPath) IN
        /\ DOMAIN files = {dir \o "/" \o n : n \in CatalogNames}
        /\ Cardinality(DOMAIN files) = Len(iconSizes)
        /\ \A j \in DOMAIN iconSizes :
              LET icon == iconSizes[j]
                  file == files[dir \o "/" \o icon.name]
              IN  /\ file.fit = "contain"
                  /\ file.alpha = 0
                  /\ IF IsNumber(icon.size)
                     THEN /\ file.width = icon.size.number
                          /\ file.height = icon.size.number
                     ELSE /\ file.width = icon.size.width
                          /\ file.height = icon.size.height

\* generation succeeded from a source that is not square
C9_Witness ==
    /\ success
    /\ logo = [kind |-> "image", width |-> 1024, height |-> 512]
    /\ Cardinality(DOMAIN files) = 33

\* C10: a cancelled prompt ends the process with exit code 0, and an error
\* ends it with exit code 1.  The code violates the first half: a cancelled
\* generate-now prompt does not end the run, and a cancelled logo prompt ends
\* it with code 1.
C10_CancelExitsZero ==
    /\ Cancelled => (pc = "exited" /\ exitCode = 0)
    /\ failure # "none" => (pc = "exited" /\ exitCode = 1)

\* the kinds of event that have happened in the run
EventKinds == {events[i].kind : i \in DOMAIN events}

\* no config file holds the PWA block (the files start absent or custom)
NoConfigWritten == \A f \in ConfigFileNames : configFiles[f] # PwaConfigContent

\* nothing was created or modified on disk by the run
NothingTouched ==
    /\ dirs = {}
    /\ DOMAIN files = {}
    /\ manifest = NoManifest
    /\ NoConfigWritten
    /\ setupMd = NoReport
    /\ "mkdir" \notin EventKinds
    /\ "write" \notin EventKinds

ProjectCheckFailed ==
    failure \in {"package.json not found",
                 "This doesn't appear to be a Next.js project"}

\* C11: when package.json is missing or lists next in neither dependency
\* list, the run ends with exit code 1 before any prompt and before the
\* install, and nothing on disk is created or modified; and no prompt is
\* ever shown while the project check has not passed.
C11_ProjectCheckFailsCleanly ==
    /\ ProjectCheckFailed =>
          /\ pc = "exited"
          /\ exitCode = 1
          /\ Len(events) = 1
          /\ events[1] = [kind |-> "error", what |-> failure]
          /\ NothingTouched
    /\ pc = "start" => (events = << >> /\ NothingTouched)

C11_Witness ==
    /\ failure = "This doesn't appear to be a Next.js project"
    /\ pc = "exited"
    /\ exitCode = 1

\* the elements of a sequence
Range(seq) == {seq[i] : i \in DOMAIN seq}

\* C12: the manifest copies the branding answers into name, short_name,
\* description, theme_color and background_color, which are its first five
\* fields in that order, and display, orientation, scope and start_url are
\* the fixed values "standalone", "portrait", "/" and "/?source=pwa".
C12_BrandingCopiedVerbatim ==
    /\ SubSeq(ManifestFieldOrder, 1, 5) =
          <<"name", "short_name", "description", "theme_color",
            "background_color">>
    /\ ManifestWritten =>
          LET m == manifest[1] IN
          /\ DOMAIN m = Range(ManifestFieldOrder)
          /\ manifestInfo \in CompleteAnswers
          /\ m.name = manifestInfo.name
          /\ m.short_name = manifestInfo.shortName
          /\ m.description = manifestInfo.description
          /\ m.theme_color = manifestInfo.themeColor
          /\ m.background_color = manifestInfo.backgroundColor
          /\ m.display = "standalone"
          /\ m.orientation = "portrait"
          /\ m.scope = "/"
          /\ m.start_url = "/?source=pwa"

\* the manifest of the initial answers, whose name and short name differ
C12_Witness ==
    /\ ManifestWritten
    /\ manifest[1].name = "My Next.js App"
    /\ manifest[1].short_name = "Next App"
    /\ manifest[1].theme_color = "#000000"

InstallCommandOf(pm) ==
    CASE pm = "yarn" -> "yarn add next-pwa"
      [] pm = "pnpm" -> "pnpm add next-pwa"
      [] pm = "npm" -> "npm install next-pwa"

\* C14: detection returns yarn if yarn.lock exists, otherwise pnpm if
\* pnpm-lock.yaml exists, otherwise npm if package-lock.json exists, without
\* asking; only when no lock file exists is the operator asked, and a
\* response without a choice gives npm; the install step then runs yarn add,
\* pnpm add or npm install, followed by next-pwa, for the manager detected.
C14_PackageManagerDetection ==
    [][ /\ (pc = "detectPackageManager" /\ pc' = "install") =>
              LET locks == lockFilesFound' IN
              /\ "yarn.lock" \in locks => packageManager' = "yarn"
              /\ ("yarn.lock" \notin locks /\ "pnpm-lock.yaml" \in locks)
                     => packageManager' = "pnpm"
              /\ (locks = {"package-lock.json"}) => packageManager' = "npm"
              /\ locks # {} => events' = events
              /\ locks = {} =>
                     /\ events' = Append(events, [kind |-> "prompt",
                                                  what |-> "packageManager"])
                     /\ packageManager' \in PackageManagers
        /\ PackageManagerOrDefault(Absent) = "npm"
        /\ (pc = "install" /\ pc' # "install") =>
              LET e == events'[Len(events) + 1] IN
              /\ e.kind = "install"
              /\ e.what = InstallCommandOf(packageManager)
        /\ pc # "install" =>
              \A i \in (Len(events) + 1)..Len(events') :
                  events'[i].kind # "install" ]_vars

\* yarn.lock and package-lock.json both exist: yarn add next-pwa was run
C14_Witness ==
    /\ lockFilesFound = {"yarn.lock", "package-lock.json"}
    /\ packageManager = "yarn"
    /\ \E i \in DOMAIN events :
          events[i] = [kind |-> "install", what |-> "yarn add next-pwa"]

\* the files of the first k catalog entries in the assets directory
CatalogPrefix(k) ==
    LET dir == PathNormalize(assetsPath)
    IN  {dir \o "/" \o iconSizes[j].name : j \in 1..k}

\* C15: when producing catalog entry k fails, the files of entries 1..k-1
\* stay on disk, no file of entry k or of a later entry is written, nothing
\* is deleted, and generateAssets reports the failure and returns false.
C15_GenerationNotTransactional ==
    failure = "toFile failed" =>
        /\ iconIdx \in 1..Len(iconSizes)
        /\ DOMAIN files = CatalogPrefix(iconIdx - 1)
        /\ Cardinality(DOMAIN files) = iconIdx - 1
        /\ success = FALSE
        /\ pc = "exited"
        /\ events[Len(events) - 1] =
              [kind |-> "error", what |-> "Error generating assets"]
        /\ dirs = {PathNormalize(assetsPath)}

\* entry 18 failed after 17 files were written
C15_Witness ==
    /\ failure = "toFile failed"
    /\ iconIdx = 18
    /\ Cardinality(DOMAIN files) = 17
    /\ "public/assets/apple-touch-icon-57x57.png" \in DOMAIN files

IsAssetWrite(e) ==
    /\ e.kind = "write"
    /\ e.what \notin ConfigFileNames \cup {"public/manifest.json", "PWA_SETUP.md"}

\* C16: in every reachable state the image files written so far are those of
\* a prefix of the catalog, they were written one after the other in catalog
\* order, and while the loop runs the entry it is at is the first one not
\* yet written.
C16_SequentialCatalogOrder ==
    LET k == Cardinality(DOMAIN files)
        written == SelectSeq(events, IsAssetWrite)
        dir == PathNormalize(assetsPath)
    IN  /\ k <= Len(iconSizes)
        /\ Len(written) = k
        /\ \A j \in 1..k :
              /\ written[j].what = dir \o "/" \o iconSizes[j].name
              /\ written[j].what \in DOMAIN files
        /\ pc = "generating" => iconIdx = k + 1

\* the loop is between the eighth and the ninth entry
C16_Witness ==
    /\ pc = "generating"
    /\ iconIdx = 9
    /\ DOMAIN files = CatalogPrefix(8)

GenerationFailed ==
    failure \in {"Input file is not a readable image",
                 "Source image should be at least 512x512 pixels",
                 "toFile failed"}

\* none of the three documents was written
NoDocumentWritten ==
    /\ manifest = NoManifest
    /\ NoConfigWritten
    /\ setupMd = NoReport
    /\ \A i \in DOMAIN events :
          events[i].kind = "write" => IsAssetWrite(events[i])

Asked(prompt) ==
    \E i \in DOMAIN events : events[i] = [kind |-> "prompt", what |-> prompt]

InstallInvoked == "install" \in EventKinds

\* C17: when generateAssets returns false the run fails: the process exits
\* with code 1, the branding questions are not asked, the install command is
\* not invoked, and manifest.json, the config file and PWA_SETUP.md are not
\* written.
C17_GenerationFailureIsFatal ==
    GenerationFailed =>
        /\ success = FALSE
        /\ pc = "exited"
        /\ exitCode = 1
        /\ ~Asked("branding")
        /\ ~Asked("packageManager")
        /\ manifestInfo = NoAnswers
        /\ ~InstallInvoked
        /\ NoDocumentWritten

\* the run ended on a logo that is no image
C17_Witness ==
    /\ failure = "Input file is not a readable image"
    /\ pc = "exited"
    /\ exitCode = 1
    /\ Asked("logo")

\* C18 as stated: a missing required branding answer ends the run with exit
\* code 1 and no generated image file, manifest.json, config file or
\* PWA_SETUP.md written by the run.  The code asks the branding questions
\* after the generation, so the 33 image files are on disk by then.
C18_MissingAnswerTouchesNothing ==
    failure = "Missing required fields" =>
        /\ pc = "exited"
        /\ exitCode = 1
        /\ DOMAIN files = {}
        /\ NoDocumentWritten

\* C18, amended: a missing required branding answer ends the run with exit
\* code 1 before the install and with manifest.json, the config file and
\* PWA_SETUP.md not written; the assets directory exists by then, and when
\* generation was selected the 33 generated image files are on disk and
\* stay there, while no image file exists when it was declined.
C18_MissingAnswerWritesNoDocument ==
    failure = "Missing required fields" =>
        /\ pc = "exited"
        /\ exitCode = 1
        /\ \E f \in Range(RequiredFields) : manifestInfo[f] = ""
        /\ ~InstallInvoked
        /\ NoDocumentWritten
        /\ dirs = {PathNormalize(assetsPath)}
        /\ IF generateNow = "yes"
           THEN success /\ DOMAIN files = CatalogPrefix(Len(iconSizes))
           ELSE ~success /\ DOMAIN files = {}

\* the theme colour is missing after a successful generation
C18_Witness ==
    /\ failure = "Missing required fields"
    /\ manifestInfo.themeColor = ""
    /\ generateNow = "yes"
    /\ Cardinality(DOMAIN files) = 33
    /\ exitCode = 1

\* C19 as stated: once a prompt was cancelled nothing more happens: no
\* further prompt, no install, no directory or file written.  The code goes
\* on after a cancelled generate-now prompt.
C19_CancelStopsRun ==
    \A i \in DOMAIN events :
        events[i].kind = "cancel" =>
            /\ \A j \in (i + 1)..Len(events) :
                  events[j].kind \notin {"prompt", "install", "write", "mkdir"}
            /\ NoDocumentWritten
            /\ pc = "exited"

\* C20: when the install command fails the process exits with code 1 and
\* manifest.json, the config file and PWA_SETUP.md are not written, while the
\* image files generated before stay on disk; and in every run the install
\* comes before each of the three writes.
C20_InstallFailureIsFatal ==
    /\ failure = "Command failed" =>
          /\ pc = "exited"
          /\ exitCode = 1
          /\ NoDocumentWritten
          /\ events[Len(events) - 1] =
                [kind |-> "install", what |-> InstallCommand(packageManager)]
          /\ success => DOMAIN files = CatalogPrefix(Len(iconSizes))
    /\ \A i \in DOMAIN events :
          (events[i].kind = "write" /\ ~IsAssetWrite(events[i])) =>
              \E j \in 1..(i - 1) : events[j].kind = "install"

\* pnpm add next-pwa failed after a successful generation
C20_Witness ==
    /\ failure = "Command failed"
    /\ success
    /\ packageManager = "pnpm"
    /\ Cardinality(DOMAIN files) = 33
    /\ pc = "exited"

\* the error messages printed so far
ErrorMessages == SelectSeq(events, LAMBDA e : e.kind = "error")

\* C21 as stated: on a failing run exactly one error message is printed
\* before the process exits.  The code prints two when the generation
\* fails: generateAssets prints "Error generating assets" and main then
\* prints "Failed to generate assets".
C21_OneErrorMessage ==
    failure # "none" =>
        /\ pc = "exited"
        /\ exitCode = 1
        /\ Len(ErrorMessages) = 1

\* the report says that the assets were generated and placed
SaysGenerated ==
    StartsWith(setupMd[1].assets, "All required PWA assets have been generated")

\* C22 as stated: the written report says that the assets have been
\* generated and placed in the assets directory only when generation was
\* selected and succeeded.  The code computes assetInstructions from the
\* choice and does not use it: the report of the variant with generation
\* always says so.
C22_ReportFollowsGenerationPath ==
    setupMd # NoReport =>
        (SaysGenerated <=> (generateNow = "yes" /\ success))

Ev(kind, what) == [kind |-> kind, what |-> what]

\* the effects of a complete run without generation, from the project state
\* and the answers alone
EffectsWithoutGeneration ==
    <<Ev("prompt", "structure"), Ev("prompt", "assetsLocation")>>
        \o (IF assetsChoice = "custom" THEN <<Ev("prompt", "customPath")>>
            ELSE << >>)
        \o <<Ev("mkdir", PathNormalize(assetsPath)), Ev("prompt", "branding")>>
        \o (IF lockFilesFound = {} THEN <<Ev("prompt", "packageManager")>>
            ELSE << >>)
        \o <<Ev("install", InstallCommandOf(packageManager)),
             Ev("write", "public/manifest.json"),
             Ev("write", ByPrecedence(configFiles)),
             Ev("write", "PWA_SETUP.md")>>

\* C23: a complete run with generation declined in the variant with
\* generation, and a complete run of the variant without it, have the same
\* outcome, which depends on the project state and the answers only: the
\* assets directory created, the manifest, the config file chosen and its
\* content, the install command, exit code 0, and the same effects in the
\* same order apart from the generate-now question.
C23_VariantsAgreeWhenDeclined ==
    (pc = "done" /\ (variant = "plain" \/ generateNow = "no")) =>
        /\ exitCode = 0
        /\ dirs = {PathNormalize(assetsPath)}
        /\ DOMAIN files = {}
        /\ manifest = <<BuildManifest(manifestInfo, assetsPath)>>
        /\ configFiles[ByPrecedence(configFiles)] = PwaConfigContent
        /\ \A f \in ConfigFileNames \ {ByPrecedence(configFiles)} :
              configFiles[f] \in ConfigContents
        /\ SelectSeq(events, LAMBDA e : e # Ev("prompt", "generateNow"))
               = EffectsWithoutGeneration
        /\ variant = "plain" => ~Asked("generateNow")

\* the variant with generation, generation declined, run to its end
C23_Witness ==
    /\ pc = "done"
    /\ variant = "generate"
    /\ generateNow = "no"
    /\ dirs = {"public/pwa-assets"}
    /\ configFiles["next.config.mjs"] = PwaConfigContent

\* the positions in the log of the events that satisfy a test
Positions(Test(_)) == {i \in DOMAIN events : Test(events[i])}

Before(A, B) == \A a \in A, b \in B : a < b

\* C24: in every run each effect happens at most once, and a run in which
\* every step succeeds has them in this order: the assets directory created,
\* the images generated if selected, the branding collected, the install
\* invoked, manifest.json written, exactly one config file written,
\* PWA_SETUP.md written; it ends with all three documents written.
C24_EffectsInOrderOnce ==
    LET mk == Positions(LAMBDA e : e.kind = "mkdir")
        img == Positions(IsAssetWrite)
        br == Positions(LAMBDA e : e = Ev("prompt", "branding"))
        ins == Positions(LAMBDA e : e.kind = "install")
        man == Positions(LAMBDA e : e = Ev("write", "public/manifest.json"))
        cfg == Positions(LAMBDA e : e.kind = "write" /\ e.what \in ConfigFileNames)
        rep == Positions(LAMBDA e : e = Ev("write", "PWA_SETUP.md"))
    IN  /\ \A S \in {mk, br, ins, man, cfg, rep} : Cardinality(S) <= 1
        /\ Cardinality(img) <= Len(iconSizes)
        /\ pc = "done" =>
              /\ \A S \in {mk, br, ins, man, cfg, rep} : Cardinality(S) = 1
              /\ Cardinality(img) = IF generateNow = "yes" THEN Len(iconSizes)
                                    ELSE 0
              /\ Before(mk, img)
              /\ Before(mk \cup img, br)
              /\ Before(br, ins)
              /\ Before(ins, man)
              /\ Before(man, cfg)
              /\ Before(cfg, rep)
              /\ rep = {Len(events)}
              /\ manifest # NoManifest
              /\ \E f \in ConfigFileNames : configFiles[f] = PwaConfigContent
              /\ setupMd # NoReport
              /\ exitCode = 0
              /\ failure = "none"

\* a complete run with generation
C24_Witness ==
    /\ pc = "done"
    /\ generateNow = "yes"
    /\ success
    /\ Len(events) >= 40
    /\ setupMd # NoReport

CatalogWellFormed ==
    /\ Cardinality(CatalogNames) = Len(iconSizes)
    /\ \A j \in DOMAIN iconSizes :
          LET box == ResizeBox(iconSizes[j])
          IN  /\ box.width \in Nat \ {0}
              /\ box.height \in Nat \ {0}

\* the assets location has been chosen
LocationChosen ==
    /\ assetsChoice # Unanswered
    /\ assetsChoice = "custom" => customPath # Unanswered

\* the assets path is one of the presets or "public/" and the custom suffix,
\* and it is what the directory, the image files and the manifest use
AssetsPathAsChosen ==
    /\ assetsPath = (CASE assetsChoice = "public/assets" -> "public/assets"
                       [] assetsChoice = "public/images" -> "public/images"
                       [] assetsChoice = "custom" -> "public/" \o customPath)
    /\ dirs \subseteq {PathNormalize(assetsPath)}
    /\ DOMAIN files = CatalogPrefix(Cardinality(DOMAIN files))
    /\ ManifestWritten =>
          LET relative == PathRelative("public", assetsPath)
          IN  \A i \in DOMAIN Icons :
                  Icons[i].src = "/" \o relative \o "/" \o ManifestEntries[i].file

\* the assets path names a directory inside public
UnderPublicRoot == StartsWith(PathNormalize(assetsPath) \o "/", "public/")

\* C25 as stated: the catalog has unique file names and positive integer
\* dimensions, the assets path is a preset or "public/" and the custom
\* suffix, and it is always under the public root.  A custom suffix that
\* climbs out with "..", such as "../static", gives a path outside public.
C25_AssetsUnderPublicRoot ==
    /\ CatalogWellFormed
    /\ LocationChosen => (AssetsPathAsChosen /\ UnderPublicRoot)

\* C25, amended: as stated, except that the path is under the public root
\* exactly when the custom suffix does not climb out of it with "..".
C25_AssetsPathFromChoice ==
    /\ CatalogWellFormed
    /\ LocationChosen =>
          /\ AssetsPathAsChosen
          /\ UnderPublicRoot <=>
                ~(/\ assetsChoice = "custom"
                  /\ StartsWith(PathNormalize(customPath) \o "/", "../"))

\* the custom suffix img/icons/ used for the directory and the image files
C25_Witness ==
    /\ assetsChoice = "custom"
    /\ customPath = "img/icons/"
    /\ assetsPath = "public/img/icons/"
    /\ dirs = {"public/img/icons"}
    /\ "public/img/icons/favicon-16x16.ico" \in DOMAIN files
    /\ ManifestWritten
====
